---- MODULE Spec2Model ----
(***************************************************************************)
(* The floating-menu controller of demos/src/Extensions/FloatingMenu/React *)
(* (index.jsx): the plugin state reducer (showFloatingMenu), the           *)
(* setFloatMenu command and the Space / Escape shortcuts, and the           *)
(* FloatingMenuView (update cycle, mousedown / keydown / focus / blur       *)
(* handlers, the tippy show/hidden callbacks with their deferred focus      *)
(* handoff, destroy).                                                       *)
(*                                                                         *)
(* Every handler is one action.  A handler's code runs on a record w of    *)
(* the fields it reads and writes; w.calls is the ordered list of what     *)
(* the running handler did (calls on the tippy instance and on the          *)
(* editor, reducer runs, update cycles), each entry with the function that  *)
(* did it and the fields as they were at that moment.                       *)
(***************************************************************************)
EXTENDS Integers, Sequences, FiniteSets, TLC

\* Most deferred callbacks (timeouts and animation-frame callbacks) that may
\* be pending at once.
MaxPending == 2

(***************************************************************************)
(* The document, as far as the code looks at it: the node enclosing a      *)
(* resolved position.  Content "foo" is the inline Foo node of the demo    *)
(* schema: a leaf without text whose text serializer renders 'foo'.        *)
(***************************************************************************)
Kinds == {"paragraph", "heading", "codeBlock"}

Contents == {"none", "text", "foo"}

Blocks ==
  {b \in [kind : Kinds, content : Contents] :
     ~(b.kind = "codeBlock" /\ b.content = "foo")}

\* A selection: collapsed (anchor = to), or a range whose two ends sit in
\* two nodes.  depth is $anchor.depth.
Node(k, c) == [kind |-> k, content |-> c]

Caret(node, depth) == [empty |-> TRUE, anchor |-> node, to |-> node, depth |-> depth]

Range(a, t) == [empty |-> FALSE, anchor |-> a, to |-> t, depth |-> 1]

\* The selections the editor is driven through.
Selections ==
  {Caret(Node("paragraph", "none"), 1), Caret(Node("paragraph", "none"), 2),
   Caret(Node("paragraph", "text"), 1), Caret(Node("paragraph", "foo"), 1),
   Caret(Node("heading", "none"), 1), Caret(Node("codeBlock", "none"), 1),
   Range(Node("paragraph", "none"), Node("paragraph", "text")),
   Range(Node("paragraph", "text"), Node("paragraph", "none"))}

ShouldShowOptions == {"none", "always", "never"}

RelatedTargets == {"null", "outside", "overlay", "editor"}

Keys == {"Escape", "Enter"}

HandlerNames == {"mousedown", "keydown", "focus", "blur"}

VARIABLES
  selection,         \* view.state.selection
  showFloatingMenu,  \* floatingMenuKey.getState(view.state).showFloatingMenu
  lastMeta,          \* floatingMenuKey metadata of the last applied transaction
  hasFocus,          \* view.hasFocus()
  isEditable,        \* editor.isEditable
  composing,         \* view.composing
  attached,          \* editor.options.element.parentElement exists
  shouldShowOpt,     \* options.shouldShow of the plugin
  installed,         \* the engine still holds the plugin view
  preventHide,       \* FloatingMenuView.preventHide
  visible,           \* FloatingMenuView.visible
  tippy,             \* FloatingMenuView.tippy: "none", "live", "destroyed"
  shown,             \* the tippy instance is showing (its popper is mounted)
  listeners,         \* handlers of the view still registered
  raised,            \* an exception escaped a handler
  focusTO,           \* pending setTimeout callbacks of focusHandler
  showTO,            \* pending setTimeout callbacks of onShow
  frame,             \* requestAnimationFrame callbacks queued for the next frame
  mdSeq              \* progress of the run mousedown, blur, blur (0 = none)

vars ==
  <<selection, showFloatingMenu, lastMeta, hasFocus, isEditable, composing,
    attached, shouldShowOpt, installed, preventHide, visible, tippy, shown,
    listeners, raised, focusTO, showTO, frame, mdSeq>>

---------------------------------------------------------------------------
(* ProseMirror node queries *)

isTextblock(node) == node.kind \in {"paragraph", "heading", "codeBlock"}

specCode(node) == node.kind = "codeBlock"

contentSize(node) == IF node.content = "none" THEN 0 ELSE 1

childCount(node) == IF node.content = "none" THEN 0 ELSE 1

textContent(node) == IF node.content = "text" THEN "x" ELSE ""

getText(node) ==
  CASE node.content = "none" -> ""
    [] node.content = "text" -> "x"
    [] node.content = "foo" -> "foo"

isEmptyParagraph(nodeParent) ==
  IF /\ nodeParent.kind = "paragraph"
     /\ contentSize(nodeParent) = 0
     /\ getText(nodeParent) = ""
  THEN TRUE
  ELSE FALSE

isEmptyTextBlock(parent) ==
  /\ isTextblock(parent)
  /\ ~specCode(parent)
  /\ textContent(parent) = ""
  /\ childCount(parent) = 0
  /\ getText(parent) = ""

---------------------------------------------------------------------------
(* The world a handler runs in, and its log.  calls lists what the running *)
(* handler did, in order: each entry names what was done (op, with its     *)
(* argument arg), the function that did it (by) and the fields as they     *)
(* were just before (at).                                                  *)

World ==
  [selection |-> selection, showFloatingMenu |-> showFloatingMenu,
   lastMeta |-> lastMeta, hasFocus |-> hasFocus, isEditable |-> isEditable,
   composing |-> composing, attached |-> attached, opt |-> shouldShowOpt,
   installed |-> installed, preventHide |-> preventHide, visible |-> visible,
   tippy |-> tippy, shown |-> shown, listeners |-> listeners,
   raised |-> raised, focusTO |-> focusTO, showTO |-> showTO, frame |-> frame,
   calls |-> <<>>]

LogArg(w, op, by, arg) ==
  [w EXCEPT !.calls = Append(@, [op |-> op, by |-> by, arg |-> arg,
                                 at |-> [w EXCEPT !.calls = <<>>]])]

Log(w, op, by) == LogArg(w, op, by, "")

---------------------------------------------------------------------------
(* FloatingMenuPlugin state *)

init == [showFloatingMenu |-> FALSE]

applyKeepsOnNoop(meta, value, isSameDoc, isSameSelection) ==
  IF meta # "undefined"
  THEN [showFloatingMenu |-> (meta = "true")]
  ELSE IF isSameDoc /\ isSameSelection
       THEN value
       ELSE [showFloatingMenu |-> FALSE]

applySticky(meta, value, isSameDoc, isSameSelection) ==
  IF meta # "undefined"
  THEN [showFloatingMenu |-> (value.showFloatingMenu \/ meta = "true")]
  ELSE [showFloatingMenu |-> FALSE]

apply(meta, value, isSameDoc, isSameSelection) ==
  IF meta # "undefined"
  THEN [showFloatingMenu |-> (meta = "true")]
  ELSE IF isSameDoc /\ isSameSelection
       THEN [showFloatingMenu |-> FALSE]
       ELSE [showFloatingMenu |-> FALSE]

---------------------------------------------------------------------------
(* FloatingMenuView *)

\* FloatingMenuView.shouldShow as declared on the class.
defaultShouldShow(w) ==
  LET isRootDepth == w.selection.depth = 1
  IN IF \/ ~w.hasFocus
        \/ ~w.selection.empty
        \/ ~isRootDepth
        \/ ~isEmptyTextBlock(w.selection.anchor)
        \/ ~w.isEditable
     THEN FALSE
     ELSE TRUE

\* options.shouldShow when the plugin was given one.
optionsShouldShow(w) == w.opt = "always"

\* The shouldShow the plugin's view factory hands to the constructor; the
\* constructor stores it in place of the class's own shouldShow.
shouldShowIgnoresFlag(w) ==
  LET emptyParagraph == isEmptyParagraph(w.selection.anchor)
  IN IF ~w.selection.empty \/ ~emptyParagraph
     THEN FALSE
     ELSE IF w.opt = "none" THEN TRUE ELSE optionsShouldShow(w)

shouldShow(w) ==
  LET emptyParagraph == isEmptyParagraph(w.selection.anchor)
  IN IF ~w.selection.empty \/ ~emptyParagraph \/ ~w.showFloatingMenu
     THEN FALSE
     ELSE IF w.opt = "none" THEN TRUE ELSE optionsShouldShow(w)

onShow(w) ==
  [Log(w, "onShow", "tippy") EXCEPT !.visible = TRUE, !.showTO = @ + 1]

onHiddenKeepsVisible(w) == Log(w, "onHidden", "tippy")

onHidden(w) == [Log(w, "onHidden", "tippy") EXCEPT !.visible = FALSE]

show(w, by) ==
  IF w.tippy = "none"
  THEN w
  ELSE LET w1 == Log(w, "show", by)
       IN IF w1.tippy = "live" /\ ~w1.shown
          THEN [onShow(w1) EXCEPT !.shown = TRUE]
          ELSE w1

hide(w, by) ==
  IF w.tippy = "none"
  THEN w
  ELSE LET w1 == Log(w, "hide", by)
       IN IF w1.tippy = "live" /\ w1.shown
          THEN onHidden([w1 EXCEPT !.shown = FALSE])
          ELSE w1

setProps(w, by) == IF w.tippy = "none" THEN w ELSE Log(w, "setProps", by)

createTooltipEager(w) ==
  IF w.tippy # "none"
  THEN w
  ELSE [Log(w, "create", "createTooltip") EXCEPT !.tippy = "live"]

createTooltip(w) ==
  IF w.tippy # "none" \/ ~w.attached
  THEN w
  ELSE [Log(w, "create", "createTooltip") EXCEPT !.tippy = "live"]

updateWhileComposing(w) ==
  IF w.visible
  THEN Log(w, "skip", "update")
  ELSE LET w1 == Log(createTooltip(w), "pass", "update")
       IN IF ~shouldShow(w1)
          THEN hide(w1, "update")
          ELSE show(setProps(w1, "update"), "update")

updateIgnoresVisible(w) ==
  IF w.composing
  THEN Log(w, "skip", "update")
  ELSE LET w1 == Log(createTooltip(w), "pass", "update")
       IN IF ~shouldShow(w1)
          THEN hide(w1, "update")
          ELSE show(setProps(w1, "update"), "update")

update(w) ==
  IF w.composing \/ w.visible
  THEN Log(w, "skip", "update")
  ELSE LET w1 == Log(createTooltip(w), "pass", "update")
       IN IF ~shouldShow(w1)
          THEN hide(w1, "update")
          ELSE show(setProps(w1, "update"), "update")

\* view.dispatch(tr): the state is recomputed by the reducers, then the
\* plugin views are told of the new state.
dispatch(w, meta, isSameDoc, isSameSelection) ==
  LET value == [showFloatingMenu |-> w.showFloatingMenu]
      next == apply(meta, value, isSameDoc, isSameSelection)
      w0 == LogArg(w, IF isSameDoc /\ isSameSelection THEN "apply:same" ELSE "apply",
                   "state", meta)
      w1 == Log([w0 EXCEPT !.showFloatingMenu = next.showFloatingMenu,
                           !.lastMeta = meta],
                "applied", "state")
  IN IF w1.installed THEN update(w1) ELSE w1

\* editor.commands.setFloatMenu(visible): the command tags its transaction,
\* which is then dispatched.
setFloatMenu(w, v) ==
  dispatch(Log(w, IF v THEN "setFloatMenu:true" ELSE "setFloatMenu:false", "commands"),
           IF v THEN "true" ELSE "false", TRUE, TRUE)

\* editor.commands.focus(): asks for the DOM focus on the next animation
\* frame unless the view has it, and dispatches the command's transaction.
focusCommand(w, by) ==
  LET w1 == Log(w, "focus", by)
      w2 == IF w1.hasFocus THEN w1 ELSE [w1 EXCEPT !.frame = Append(@, "focus")]
  IN dispatch(w2, "undefined", TRUE, TRUE)

\* editor.commands.blur(): asks for the DOM blur on the next animation frame
\* and dispatches the command's transaction.
blurCommand(w, by) ==
  dispatch([Log(w, "blur", by) EXCEPT !.frame = Append(@, "blur")],
           "undefined", TRUE, TRUE)

mousedownHandler(w) ==
  [Log(w, "preventHide", "mousedownHandler") EXCEPT !.preventHide = TRUE]

keydownHandlerFocusFirst(w, key) ==
  IF key = "Escape"
  THEN LET w1 == [Log(w, "preventHide", "keydownHandler") EXCEPT !.preventHide = TRUE]
       IN hide(focusCommand(w1, "keydownHandler"), "keydownHandler")
  ELSE w

keydownHandler(w, key) ==
  IF key = "Escape"
  THEN LET w1 == [Log(w, "preventHide", "keydownHandler") EXCEPT !.preventHide = TRUE]
       IN focusCommand(hide(w1, "keydownHandler"), "keydownHandler")
  ELSE w

focusHandler(w) == [Log(w, "setTimeout", "focusHandler") EXCEPT !.focusTO = @ + 1]

\* this.element.parentNode?.contains(event.relatedTarget): the menu element
\* has a parent once the tippy instance took it as its content.
contains(w, rel) == w.tippy # "none" /\ rel = "overlay"

Enter(w, rel) == LogArg(w, "enter", "blurHandler", rel)

blurHandlerKeepsVeto(w, rel) ==
  LET w0 == Enter(w, rel)
  IN IF w0.preventHide
     THEN w0
     ELSE IF rel # "null" /\ contains(w0, rel)
          THEN w0
          ELSE IF rel = "editor"
               THEN w0
               ELSE hide(w0, "blurHandler")

blurHandlerHidesOnEditor(w, rel) ==
  LET w0 == Enter(w, rel)
  IN IF w0.preventHide
     THEN [w0 EXCEPT !.preventHide = FALSE]
     ELSE IF rel # "null" /\ contains(w0, rel)
          THEN w0
          ELSE hide(w0, "blurHandler")

blurHandler(w, rel) ==
  LET w0 == Enter(w, rel)
  IN IF w0.preventHide
     THEN [w0 EXCEPT !.preventHide = FALSE]
     ELSE IF rel # "null" /\ contains(w0, rel)
          THEN w0
          ELSE IF rel = "editor"
               THEN w0
               ELSE hide(w0, "blurHandler")

\* tippy.destroy(): a showing instance is hidden first.
\* The blur listener on the tippy box hands its event to blurHandler.
tippyBlurHandler(w, rel) == blurHandler(w, rel)

tippyDestroy(w) ==
  LET w1 == Log(w, "destroy", "destroy")
      w2 == IF w1.tippy = "live" /\ w1.shown
            THEN onHidden([w1 EXCEPT !.shown = FALSE])
            ELSE w1
  IN [w2 EXCEPT !.tippy = "destroyed"]

destroyNoGuard(w) ==
  IF w.tippy = "none"
  THEN [w EXCEPT !.raised = TRUE]
  ELSE [tippyDestroy(w) EXCEPT !.preventHide = FALSE, !.visible = FALSE,
                               !.listeners = {}]

destroy(w) ==
  LET w1 == IF w.tippy # "none" THEN tippyDestroy(w) ELSE w
  IN [w1 EXCEPT !.preventHide = FALSE, !.visible = FALSE, !.listeners = {}]

\* A focus event of the document view: the engine dispatches its focus
\* transaction and then emits 'focus'.
focusEvent(w) ==
  LET w1 == dispatch([w EXCEPT !.hasFocus = TRUE], "undefined", TRUE, TRUE)
  IN IF "focus" \in w1.listeners THEN focusHandler(w1) ELSE w1

\* A blur event of the document view (a composition ends with it): the
\* engine dispatches its blur transaction and then emits 'blur' with the
\* event.
blurEvent(w, rel) ==
  LET w1 == dispatch([w EXCEPT !.hasFocus = FALSE, !.composing = FALSE],
                     "undefined", TRUE, TRUE)
  IN IF "blur" \in w1.listeners THEN blurHandler(w1, rel) ELSE w1

\* The setTimeout callback of onShow.
showTimeoutNoVeto(w) ==
  LET w2 == blurCommand(Log(w, "preventHide", "onShow"), "onShow")
  IN [w2 EXCEPT !.frame = Append(@, "handoff")]

showTimeout(w) ==
  LET w1 == [Log(w, "preventHide", "onShow") EXCEPT !.preventHide = TRUE]
      w2 == blurCommand(w1, "onShow")
  IN [w2 EXCEPT !.frame = Append(@, "handoff")]

\* The requestAnimationFrame callback of onShow.  The textarea is in the
\* document while the tippy instance shows the menu; focusing it takes the
\* focus from the document view if it still has it.
showFrame(w) ==
  LET w1 == [Log(w, "preventHide=false", "onShow") EXCEPT !.preventHide = FALSE]
  IN IF w1.shown
     THEN LET w2 == Log(w1, "textarea.focus", "onShow")
          IN IF w2.hasFocus THEN blurEvent(w2, "overlay") ELSE w2
     ELSE w1

\* One queued animation-frame callback.
frameCallback(w, cb) ==
  CASE cb = "blur" -> IF w.hasFocus THEN blurEvent(w, "null") ELSE w
    [] cb = "focus" -> IF w.hasFocus THEN w ELSE focusEvent(w)
    [] cb = "handoff" -> showFrame(w)

\* An animation frame runs the callbacks queued for it, in the order they
\* were requested.
RECURSIVE runFrame(_, _)
runFrame(w, queue) ==
  IF queue = <<>> THEN w ELSE runFrame(frameCallback(w, Head(queue)), Tail(queue))

\* The Space shortcut.  The callback runs inside editor.commands.command,
\* which dispatches its own transaction once the callback has returned;
\* editor.commands.setFloatMenu inside the callback is a command call of its
\* own, with its own transaction, dispatched before the callback returns.
SpaceShortcut(w) ==
  IF isEmptyParagraph(w.selection.to)
  THEN dispatch(setFloatMenu(Log(w, "return:true", "Space"), TRUE),
                "undefined", TRUE, TRUE)
  ELSE dispatch(Log(w, "return:false", "Space"), "undefined", TRUE, TRUE)

\* The Escape shortcut of the editor.
EscapeShortcut(w) ==
  dispatch(setFloatMenu(Log(w, "return:true", "Escape"), FALSE),
           "undefined", TRUE, TRUE)

---------------------------------------------------------------------------
(* The state machine *)

Init ==
  /\ selection = Caret(Node("paragraph", "text"), 1)
  /\ showFloatingMenu = init.showFloatingMenu
  /\ lastMeta = "undefined"
  /\ hasFocus = FALSE
  /\ isEditable = TRUE
  /\ composing = FALSE
  /\ attached \in BOOLEAN
  /\ shouldShowOpt \in ShouldShowOptions
  /\ installed = TRUE
  /\ preventHide = FALSE
  /\ visible = FALSE
  /\ tippy = "none"
  /\ shown = FALSE
  /\ listeners = HandlerNames
  /\ raised = FALSE
  /\ focusTO = 0
  /\ showTO = 0
  /\ frame = <<>>
  /\ mdSeq = 0

WithinBounds(w) == w.focusTO + w.showTO + Len(w.frame) <= MaxPending

\* mdSeq follows the handler's log: a mousedown starts the run, a blur
\* handled with a related target outside the menu and the document view
\* continues it, any other write of preventHide and any other blur end it.
RECURSIVE Track(_, _)
Track(n, log) ==
  IF log = <<>>
  THEN n
  ELSE LET c == Head(log)
           n1 == CASE c.by = "mousedownHandler" -> 1
                   [] c.by = "blurHandler" /\ c.op = "enter" ->
                        IF n \in {1, 2} /\ c.arg \in {"null", "outside"}
                        THEN n + 1 ELSE 0
                   [] c.by \in {"keydownHandler", "onShow"} -> 0
                   [] c.op = "destroy" -> 0
                   [] OTHER -> n
       IN Track(n1, Tail(log))

Commit(w) ==
  /\ WithinBounds(w)
  /\ selection' = w.selection
  /\ showFloatingMenu' = w.showFloatingMenu
  /\ lastMeta' = w.lastMeta
  /\ hasFocus' = w.hasFocus
  /\ isEditable' = w.isEditable
  /\ composing' = w.composing
  /\ attached' = w.attached
  /\ shouldShowOpt' = w.opt
  /\ installed' = w.installed
  /\ preventHide' = w.preventHide
  /\ visible' = w.visible
  /\ tippy' = w.tippy
  /\ shown' = w.shown
  /\ listeners' = w.listeners
  /\ raised' = w.raised
  /\ focusTO' = w.focusTO
  /\ showTO' = w.showTO
  /\ frame' = w.frame
  /\ mdSeq' = Track(IF mdSeq = 3 THEN 0 ELSE mdSeq, w.calls)

Start(op) == Log(World, op, "event")

(***************************************************************************)
(* The handlers.  RunX is the set of runs of handler X the current state   *)
(* allows, each the world it ends in with its log; action X takes one.     *)
(***************************************************************************)

\* The caret moves or the selection changes.
RunSelectionChange ==
  IF installed
  THEN {dispatch([Start("transaction") EXCEPT !.selection = s], "undefined", TRUE, FALSE) :
          s \in Selections \ {selection}}
  ELSE {}

SelectionChange == \E w \in RunSelectionChange : Commit(w)

\* The node holding the caret gets another content (typing, deleting,
\* inserting a Foo node); the caret stays in it, collapsed.
RunDocChange ==
  IF installed
  THEN {dispatch([Start("transaction") EXCEPT !.selection = s], "undefined", FALSE, FALSE) :
          s \in {t \in Selections :
                   /\ t.empty
                   /\ t.depth = selection.depth
                   /\ t.to.kind = selection.to.kind
                   /\ t.to.content # selection.to.content}}
  ELSE {}

DocChange == \E w \in RunDocChange : Commit(w)

\* A transaction that changes neither the document nor the selection and
\* carries no metadata under floatingMenuKey.
RunOtherTransaction ==
  IF installed THEN {dispatch(Start("transaction"), "undefined", TRUE, TRUE)} ELSE {}

OtherTransaction == \E w \in RunOtherTransaction : Commit(w)

\* editor.commands.setFloatMenu(v) called from outside the shortcuts.
RunSetFloatMenu ==
  IF installed THEN {setFloatMenu(Start("command"), v) : v \in BOOLEAN} ELSE {}

SetFloatMenu == \E w \in RunSetFloatMenu : Commit(w)

RunSpace ==
  IF installed /\ hasFocus THEN {SpaceShortcut(Start("Space"))} ELSE {}

Space == \E w \in RunSpace : Commit(w)

RunEscape ==
  IF installed /\ hasFocus THEN {EscapeShortcut(Start("Escape"))} ELSE {}

Escape == \E w \in RunEscape : Commit(w)

\* The document view gets the input focus.
RunFocus ==
  IF installed /\ ~hasFocus THEN {focusEvent(Start("focus"))} ELSE {}

Focus == \E w \in RunFocus : Commit(w)

\* The document view loses the input focus to rel, which is in the menu
\* only while the tippy instance shows it.
RunBlur ==
  IF installed /\ hasFocus
  THEN {blurEvent(Start("blur"), rel) :
          rel \in {r \in RelatedTargets : r # "editor" /\ (r = "overlay" => shown)}}
  ELSE {}

Blur == \E w \in RunBlur : Commit(w)

\* The tippy box, shown and holding the input focus, loses it to rel; the
\* document view is focused when rel is the document view.
RunTippyBlur ==
  IF tippy = "live" /\ shown /\ ~hasFocus
  THEN {IF rel = "editor"
        THEN focusEvent(tippyBlurHandler(Start("tippyblur"), rel))
        ELSE tippyBlurHandler(Start("tippyblur"), rel) : rel \in RelatedTargets}
  ELSE {}

TippyBlur == \E w \in RunTippyBlur : Commit(w)

\* A mousedown on the menu element, which is in the document while the
\* tippy instance shows it.
RunMousedown ==
  IF "mousedown" \in listeners /\ shown
  THEN {mousedownHandler(Start("mousedown"))}
  ELSE {}

Mousedown == \E w \in RunMousedown : Commit(w)

\* A keydown on the menu element.
RunKeydown ==
  IF "keydown" \in listeners /\ shown
  THEN {keydownHandler(LogArg(World, "keydown", "event", key), key) : key \in Keys}
  ELSE {}

Keydown == \E w \in RunKeydown : Commit(w)

\* The setTimeout callback of focusHandler.
RunDeferredUpdate ==
  IF focusTO > 0 THEN {update([Start("timeout") EXCEPT !.focusTO = @ - 1])} ELSE {}

DeferredUpdate == \E w \in RunDeferredUpdate : Commit(w)

RunShowTimeout ==
  IF showTO > 0 THEN {showTimeout([Start("timeout") EXCEPT !.showTO = @ - 1])} ELSE {}

ShowTimeout == \E w \in RunShowTimeout : Commit(w)

RunAnimationFrame ==
  IF frame # <<>> THEN {runFrame([Start("frame") EXCEPT !.frame = <<>>], frame)} ELSE {}

AnimationFrame == \E w \in RunAnimationFrame : Commit(w)

RunCompositionStart ==
  IF installed /\ hasFocus /\ ~composing
  THEN {[Start("compositionstart") EXCEPT !.composing = TRUE]}
  ELSE {}

CompositionStart == \E w \in RunCompositionStart : Commit(w)

RunCompositionEnd ==
  IF installed /\ composing
  THEN {[Start("compositionend") EXCEPT !.composing = FALSE]}
  ELSE {}

CompositionEnd == \E w \in RunCompositionEnd : Commit(w)

\* editor.setEditable(b): the view is given the unchanged state again.
RunSetEditable ==
  IF installed
  THEN {update([Start("setEditable") EXCEPT !.isEditable = ~isEditable])}
  ELSE {}

SetEditable == \E w \in RunSetEditable : Commit(w)

\* The editor element is put into the document.
RunAttach ==
  IF installed /\ ~attached THEN {[Start("attach") EXCEPT !.attached = TRUE]} ELSE {}

Attach == \E w \in RunAttach : Commit(w)

\* The engine drops the plugin view; destroy may be called again.
RunDestroy == {[destroy(Start("destroy")) EXCEPT !.installed = FALSE]}

Destroy == \E w \in RunDestroy : Commit(w)

Next ==
  \/ SelectionChange
  \/ DocChange
  \/ OtherTransaction
  \/ SetFloatMenu
  \/ Space
  \/ Escape
  \/ Focus
  \/ Blur
  \/ TippyBlur
  \/ Mousedown
  \/ Keydown
  \/ DeferredUpdate
  \/ ShowTimeout
  \/ AnimationFrame
  \/ CompositionStart
  \/ CompositionEnd
  \/ SetEditable
  \/ Attach
  \/ Destroy

Spec == Init /\ [][Next]_vars

\* Every handler run the current state allows and the bounds admit.
Runs ==
  {w \in RunSelectionChange \cup RunDocChange \cup RunOtherTransaction
        \cup RunSetFloatMenu \cup RunSpace \cup RunEscape \cup RunFocus
        \cup RunBlur \cup RunTippyBlur \cup RunMousedown \cup RunKeydown \cup RunDeferredUpdate
        \cup RunShowTimeout \cup RunAnimationFrame \cup RunCompositionStart
        \cup RunCompositionEnd \cup RunSetEditable \cup RunAttach
        \cup RunDestroy : WithinBounds(w)}

---------------------------------------------------------------------------
(* Reading a run's log *)

IsApply(c) == c.by = "state" /\ c.op \in {"apply", "apply:same"}

\* The fields right after entry i of run w.
After(w, i) == IF i < Len(w.calls) THEN w.calls[i + 1].at ELSE [w EXCEPT !.calls = <<>>]

\* Entry j of run w is the call op made by function by.
Did(w, j, op, by) == j <= Len(w.calls) /\ w.calls[j].op = op /\ w.calls[j].by = by

\* The calls function by made in run w, in order.
OpsBy(w, by) ==
  LET mine == SelectSeq(w.calls, LAMBDA c : c.by = by)
  IN [i \in DOMAIN mine |-> mine[i].op]

---------------------------------------------------------------------------
(* Claims *)

\* C5 (Metadata wins): a transaction tagged with visibility metadata v leaves
\* showFloatingMenu equal to v whatever the flag was before, and the flag is
\* true only if the transaction applied last carried metadata true.
C5_MetadataWins ==
  /\ \A w \in Runs : \A i \in DOMAIN w.calls :
       IsApply(w.calls[i]) /\ w.calls[i].arg # "undefined"
         => After(w, i).showFloatingMenu = (w.calls[i].arg = "true")
  /\ showFloatingMenu => lastMeta = "true"

\* C5 witness: with the flag true, one run applies a transaction tagged
\* false and another one tagged true.
C5_Witness ==
  /\ showFloatingMenu
  /\ \A v \in {"true", "false"} : \E w \in Runs : \E i \in DOMAIN w.calls :
       /\ IsApply(w.calls[i])
       /\ w.calls[i].arg = v
       /\ w.calls[i].at.showFloatingMenu

\* C6 (Reducer totality): a transaction without visibility metadata leaves
\* showFloatingMenu false whatever the flag was and whether or not the
\* document or the selection changed; init gives false.
C6_ReducerTotality ==
  /\ init.showFloatingMenu = FALSE
  /\ \A w \in Runs : \A i \in DOMAIN w.calls :
       IsApply(w.calls[i]) /\ w.calls[i].arg = "undefined"
         => After(w, i).showFloatingMenu = FALSE

\* C6 witness: the flag is true and a run applies an untagged transaction
\* that changes neither the document nor the selection.
C6_Witness ==
  /\ showFloatingMenu
  /\ \E w \in Runs : \E i \in DOMAIN w.calls :
       /\ w.calls[i].by = "state"
       /\ w.calls[i].op = "apply:same"
       /\ w.calls[i].arg = "undefined"
       /\ w.calls[i].at.showFloatingMenu

\* C7 (Composition guard): an update cycle that runs while the view is
\* composing returns at its guard: it creates no tippy instance, calls none
\* of show, hide and setProps, and leaves visible, preventHide and the tippy
\* instance as they were, whatever shouldShow would return.
C7_CompositionGuard ==
  \A w \in Runs : \A i \in DOMAIN w.calls :
    w.calls[i].at.composing
      => /\ w.calls[i].by = "update" => w.calls[i].op = "skip"
         /\ w.calls[i].by # "createTooltip"
         /\ w.calls[i].op \notin {"show", "setProps"}
         /\ w.calls[i].by = "update" =>
              /\ After(w, i).visible = w.calls[i].at.visible
              /\ After(w, i).shown = w.calls[i].at.shown
              /\ After(w, i).tippy = w.calls[i].at.tippy
              /\ After(w, i).preventHide = w.calls[i].at.preventHide

\* C7 witness: an update cycle runs during a composition with the overlay
\* hidden, the tippy instance created and shouldShow true.
C7_Witness ==
  \E w \in Runs : \E i \in DOMAIN w.calls :
    /\ w.calls[i].by = "update"
    /\ w.calls[i].at.composing
    /\ ~w.calls[i].at.visible
    /\ w.calls[i].at.tippy = "live"
    /\ shouldShow(w.calls[i].at)

\* The value of mdSeq just before entry i of run w.
SeqBefore(w, i) == Track(IF mdSeq = 3 THEN 0 ELSE mdSeq, SubSeq(w.calls, 1, i - 1))

\* Entry i of run w is the blur handler entered with a related target
\* outside the menu and the document view.
OutsideBlur(w, i) ==
  /\ w.calls[i].by = "blurHandler"
  /\ w.calls[i].op = "enter"
  /\ w.calls[i].arg \in {"null", "outside"}

\* C3 (Mousedown protects from blur): the first blur with an outside related
\* target that follows a mousedown on the menu element (no other write of
\* preventHide in between) calls hide neither in its handler nor in the
\* update cycle of its transaction, and leaves preventHide false; the next
\* such blur, no mousedown in between, calls hide.
C3_MousedownProtectsFromBlur ==
  \A w \in Runs : \A i \in DOMAIN w.calls :
    OutsideBlur(w, i) =>
      /\ SeqBefore(w, i) = 1 =>
           /\ ~Did(w, i + 1, "hide", "blurHandler")
           /\ \A j \in 1..i : w.calls[j].op # "hide"
           /\ After(w, i).preventHide = FALSE
           /\ After(w, i).shown
      /\ SeqBefore(w, i) = 2 => Did(w, i + 1, "hide", "blurHandler")

\* C3 witness: the second blur after a mousedown has just hidden the overlay.
C3_Witness == mdSeq = 3 /\ tippy = "live" /\ ~shown /\ ~visible

\* C4 (Escape closes and refocuses): the keydown handler, on Escape, sets
\* preventHide, calls hide and then editor.commands.focus(), in that order,
\* after which the overlay is hidden, preventHide is true and the document
\* view has the focus or is to get it on the next animation frame; on any
\* other key it does nothing.
C4_EscapeClosesAndRefocuses ==
  \A w \in RunKeydown :
    IF w.calls[1].arg = "Escape"
    THEN /\ OpsBy(w, "keydownHandler") = <<"preventHide", "hide", "focus">>
         /\ w.preventHide
         /\ ~w.shown /\ ~w.visible
         /\ w.hasFocus \/ \E k \in DOMAIN w.frame : w.frame[k] = "focus"
    ELSE /\ Len(w.calls) = 1
         /\ [w EXCEPT !.calls = <<>>] = World

\* C4 witness: Escape was pressed in the open overlay: it is hidden,
\* preventHide is set and the focus is on its way to the document view.
C4_Witness ==
  /\ preventHide
  /\ tippy = "live" /\ ~shown /\ ~visible
  /\ \E k \in DOMAIN frame : frame[k] = "focus"

\* A second destroy() on the world a destroy() run left.
Again(w) == destroy([w EXCEPT !.calls = <<>>])

\* C8 (Idempotent teardown): destroy raises nothing, also when no tippy
\* instance was ever created; after it no handler is registered and
\* preventHide and visible are false; a second destroy raises nothing and
\* leaves every field as the first left it.
C8_IdempotentTeardown ==
  \A w \in RunDestroy :
    /\ ~w.raised
    /\ w.listeners = {}
    /\ ~w.preventHide /\ ~w.visible
    /\ ~Again(w).raised
    /\ [Again(w) EXCEPT !.calls = <<>>] = [w EXCEPT !.calls = <<>>]

\* C8 witness: the view was destroyed before any tippy instance was created,
\* and destroy can run again.
C8_Witness ==
  /\ ~installed
  /\ tippy = "none"
  /\ listeners = {}
  /\ RunDestroy # {}

\* The gate as C1 states it, on world a: the flag, a collapsed selection, the
\* caret-context predicate on the anchor, and the configured shouldShow or,
\* when none is configured, the default one.
ClaimedGate(a) ==
  /\ a.showFloatingMenu
  /\ a.selection.empty
  /\ isEmptyTextBlock(a.selection.anchor)
  /\ IF a.opt = "none" THEN defaultShouldShow(a) ELSE optionsShouldShow(a)

\* Entry i of run w is an update cycle past its guards, the tippy instance
\* existing.
PastGuards(w, i) ==
  /\ w.calls[i].by = "update"
  /\ w.calls[i].op = "pass"
  /\ w.calls[i].at.tippy = "live"

ShowInvoked(w, i) == \E j \in {i + 1, i + 2} : Did(w, j, "show", "update")

HideInvoked(w, i) == Did(w, i + 1, "hide", "update")

\* C1 (Gate conjunction): an update cycle past its guards calls show iff the
\* flag is true, the selection is collapsed, the caret-context predicate
\* holds on the anchor and the configured (else the default) shouldShow
\* returns true; otherwise it calls hide and not show.
C1_GateConjunction ==
  \A w \in Runs : \A i \in DOMAIN w.calls :
    PastGuards(w, i) =>
      /\ ShowInvoked(w, i) <=> ClaimedGate(w.calls[i].at)
      /\ ~ClaimedGate(w.calls[i].at) => HideInvoked(w, i) /\ ~ShowInvoked(w, i)

\* One of the gate's conjuncts that C2 names is false on world a.
GateBroken(a) ==
  \/ ~a.showFloatingMenu
  \/ ~a.selection.empty
  \/ ~isEmptyParagraph(a.selection.anchor)

\* C2 (Hide when a conjunct falls): an update cycle that runs, no composition
\* in progress, while the overlay is visible and the flag is false, the
\* selection is a range or the caret's block is not empty, hides the overlay.
C2_HidesWhenConjunctFalls ==
  \A w \in Runs : \A i \in DOMAIN w.calls :
    /\ w.calls[i].by = "update"
    /\ w.calls[i].at.visible
    /\ ~w.calls[i].at.composing
    /\ w.calls[i].at.tippy = "live"
    /\ GateBroken(w.calls[i].at)
    => /\ HideInvoked(w, i)
       /\ ~After(w, i + 1).visible

\* The scenario of C9: caret in an empty paragraph at the root, view focused
\* and editable, overlay hidden, host attached, flag false.
OpenKeyScenario ==
  /\ selection = Caret(Node("paragraph", "none"), 1)
  /\ hasFocus /\ isEditable /\ ~composing
  /\ attached /\ ~visible /\ ~shown
  /\ ~showFloatingMenu
  /\ shouldShowOpt # "never"

\* C9 (Open-key scenario): in that scenario the open key makes the flag true,
\* the flag is still true when every transaction of the key press has been
\* applied, and visible is true after the update cycle.
C9_OpenKeyScenario ==
  \A w \in RunSpace :
    OpenKeyScenario =>
      /\ \E i \in DOMAIN w.calls :
           Did(w, i, "applied", "state") /\ w.calls[i].at.showFloatingMenu
      /\ w.showFloatingMenu
      /\ w.visible

\* C10 (Open key and eligible blocks): pressed with the end of the selection
\* outside an empty eligible block the open key returns false, does not call
\* setFloatMenu(true) and leaves the flag not true; pressed inside an empty
\* eligible block it returns true.
C10_OpenKeyEligibleBlock ==
  \A w \in RunSpace :
    IF isEmptyTextBlock(selection.to)
    THEN Did(w, 2, "return:true", "Space")
    ELSE /\ Did(w, 2, "return:false", "Space")
         /\ \A i \in DOMAIN w.calls : w.calls[i].op # "setFloatMenu:true"
         /\ ~w.showFloatingMenu

\* The caret-context predicate as C11 states it, on block node.
CaretContext(node) ==
  /\ isTextblock(node)
  /\ ~specCode(node)
  /\ textContent(node) = ""
  /\ childCount(node) = 0
  /\ getText(node) = ""

\* C11 (Caret-context agreement): with the caret in any block, the predicate
\* of the open-key shortcut (on the end of the selection), the one of the
\* plugin-level gate (on the anchor) and the one of the default shouldShow
\* (on the anchor) return the same value, true exactly for an empty plain
\* textblock that is no code block.
C11_CaretContextAgreement ==
  selection.empty =>
    /\ isEmptyParagraph(selection.to) = CaretContext(selection.to)
    /\ isEmptyParagraph(selection.anchor) = CaretContext(selection.anchor)
    /\ isEmptyTextBlock(selection.anchor) = CaretContext(selection.anchor)

\* The structural and focus conditions of the default shouldShow that C12
\* names, on world a.
DefaultConditions(a) ==
  /\ a.hasFocus
  /\ a.selection.depth = 1
  /\ a.isEditable

\* C12 (Two-layer gating without an override): with no shouldShow override
\* configured, an update cycle calls show only if the document view has the
\* focus, the caret is at depth 1 and the editor is editable.
C12_TwoLayerGating ==
  \A w \in Runs : \A i \in DOMAIN w.calls :
    /\ Did(w, i, "show", "update")
    /\ w.calls[i].at.opt = "none"
    => DefaultConditions(w.calls[i].at)

\* Entry i of run w is the blur handler entered with preventHide false, the
\* tippy instance existing.
PlainBlur(w, i) ==
  /\ w.calls[i].by = "blurHandler"
  /\ w.calls[i].op = "enter"
  /\ ~w.calls[i].at.preventHide
  /\ w.calls[i].at.tippy # "none"

\* C13 (Blur decision with no veto pending): the blur handler, entered by a
\* blur of the document view or of the tippy box while preventHide is false,
\* calls hide iff the related target is neither in the menu nor the document
\* view (no related target: it hides); otherwise it calls nothing and
\* leaves the overlay as it was; preventHide stays false in each case.
C13_BlurDecision ==
  \A w \in Runs : \A i \in DOMAIN w.calls :
    PlainBlur(w, i) =>
      /\ Did(w, i + 1, "hide", "blurHandler")
           <=> w.calls[i].arg \notin {"overlay", "editor"}
      /\ w.calls[i].arg \in {"overlay", "editor"} =>
           /\ \A j \in DOMAIN w.calls : j > i => w.calls[j].by # "blurHandler"
           /\ After(w, i).shown = w.calls[i].at.shown
           /\ After(w, i).visible = w.calls[i].at.visible
           /\ After(w, i).tippy = w.calls[i].at.tippy
      /\ ~After(w, i).preventHide
      /\ Did(w, i + 1, "hide", "blurHandler") =>
           ~After(w, i + 1).preventHide /\ ~After(w, i + 1).shown

\* C13 witness: the overlay is shown and the tippy box holds the focus with
\* no veto pending; its blur can go to the document view (nothing is done),
\* into the menu (nothing is done) or nowhere (hide).
C13_Witness ==
  /\ shown /\ ~preventHide /\ ~hasFocus
  /\ \A rel \in RelatedTargets :
       \E w \in RunTippyBlur : \E i \in DOMAIN w.calls :
         /\ PlainBlur(w, i)
         /\ w.calls[i].arg = rel
         /\ Did(w, i + 1, "hide", "blurHandler") <=> rel \in {"null", "outside"}

\* The animation frame that follows the macrotask run w1 of onShow.
FrameAfter(w1) == runFrame([w1 EXCEPT !.calls = <<>>, !.frame = <<>>], w1.frame)

DeferredRuns == RunDeferredUpdate \cup RunShowTimeout \cup RunAnimationFrame

\* C15 (Deferred steps tolerate teardown): a deferred step that fires after
\* destroy calls none of show, hide and setProps, blurs and focuses nothing,
\* and leaves preventHide and visible false.
C15_DeferredStepsTolerateTeardown ==
  ~installed =>
    \A w \in DeferredRuns :
      /\ \A i \in DOMAIN w.calls :
           w.calls[i].op \notin {"show", "hide", "setProps", "blur", "focus",
                                 "textarea.focus"}
      /\ ~w.preventHide
      /\ ~w.visible

\* C16 (Lazy creation of the overlay instance): while the host element is
\* not attached there is no tippy instance, and an update cycle creates
\* none, calls none of show, hide and setProps and raises nothing; an
\* update cycle past its guards with the host attached has the instance,
\* creating it if there was none; an instance is created only when there is
\* none, and once there is one it is never replaced.
C16_LazyCreation ==
  /\ ~attached => tippy = "none"
  /\ \A w \in Runs :
       /\ tippy # "none" => w.tippy # "none"
       /\ ~w.raised
       /\ \A i \in DOMAIN w.calls :
            /\ Did(w, i, "pass", "update") /\ ~w.calls[i].at.attached =>
                 /\ w.calls[i].at.tippy = "none"
                 /\ After(w, i).tippy = "none"
                 /\ ~(i + 1 <= Len(w.calls) /\ w.calls[i + 1].by = "update"
                        /\ w.calls[i + 1].op \in {"show", "hide", "setProps"})
            /\ Did(w, i, "pass", "update") /\ w.calls[i].at.attached =>
                 w.calls[i].at.tippy # "none"
            /\ Did(w, i, "create", "createTooltip") =>
                 /\ w.calls[i].at.tippy = "none"
                 /\ w.calls[i].at.attached
                 /\ ~w.calls[i].at.composing /\ ~w.calls[i].at.visible
                 /\ After(w, i).tippy = "live"
                 /\ Did(w, i + 1, "pass", "update")

\* C16 witness: update cycles ran while the host was not attached (the
\* document view got the focus) and created nothing; the host is attached
\* now and the next update cycle creates the instance.
C16_Witness ==
  /\ attached /\ hasFocus /\ tippy = "none"
  /\ \E w \in Runs : \E i \in DOMAIN w.calls : Did(w, i, "create", "createTooltip")

\* C17 (visible mirrors the overlay): visible is true iff the tippy instance
\* exists, is not destroyed and is shown (its onShow fired after its last
\* onHidden); within a handler run visible changes only in onShow and
\* onHidden, and destroy leaves it false; update, the blur handler,
\* mousedown and keydown do not write it.
C17_VisibleMirrorsOverlay ==
  /\ visible <=> (tippy = "live" /\ shown)
  /\ \A w \in Runs :
       /\ \A i \in DOMAIN w.calls :
            After(w, i).visible # w.calls[i].at.visible
              => /\ w.calls[i].by = "tippy"
                 /\ w.calls[i].op = IF w.calls[i].at.visible THEN "onHidden" ELSE "onShow"
       /\ w.visible <=> (w.tippy = "live" /\ w.shown)
  /\ \A w \in RunDestroy : ~w.visible

\* C17 witness: the overlay was shown (its onShow left the macrotask
\* pending) and then destroyed: visible is false again.
C17_Witness == tippy = "destroyed" /\ showTO > 0 /\ ~visible /\ ~shown

\* C18 (No redundant show): no handler run calls show or setProps on the
\* tippy instance while visible is true.
C18_NoRedundantShow ==
  \A w \in Runs : \A i \in DOMAIN w.calls :
    w.calls[i].op \in {"show", "setProps"} => ~w.calls[i].at.visible

\* C18 witness: the overlay is visible and an update cycle runs whose
\* shouldShow would be true: it skips.
C18_Witness ==
  /\ visible
  /\ \E w \in Runs : \E i \in DOMAIN w.calls :
       /\ Did(w, i, "skip", "update")
       /\ w.calls[i].at.visible /\ ~w.calls[i].at.composing
       /\ shouldShow(w.calls[i].at)

\* C19 (preventHide vetoes only the blur it raced): a blur of the document
\* view to a target outside the menu and the document view, while the
\* overlay is visible and no deferred step of the show handoff or of Escape
\* is pending, hides the overlay.
C19_VetoOnlyTheRacedBlur ==
  visible /\ showTO = 0 /\ frame = <<>> =>
    \A w \in RunBlur : \A i \in DOMAIN w.calls :
      Did(w, i, "enter", "blurHandler") /\ w.calls[i].arg = "outside"
        => Did(w, i + 1, "hide", "blurHandler") /\ ~w.visible

\* Run w applies a transaction tagged with visibility metadata true.
AppliesTrue(w) ==
  \E i \in DOMAIN w.calls : IsApply(w.calls[i]) /\ w.calls[i].arg = "true"

\* C20 (Escape keeps the overlay closed): Escape pressed in the open overlay
\* leaves it hidden, the flag false and the last applied transaction
\* untagged; and while the flag is false, a handler run that applies no
\* transaction tagged true (the focus Escape returns to the document view
\* and the deferred update cycle of that focus among them) calls no show,
\* makes nothing visible and leaves the flag false.
C20_EscapeKeepsClosed ==
  /\ \A w \in RunKeydown :
       w.calls[1].arg = "Escape" =>
         /\ ~w.visible /\ ~w.shown
         /\ ~w.showFloatingMenu
         /\ w.lastMeta # "true"
  /\ ~showFloatingMenu =>
       \A w \in Runs :
         ~AppliesTrue(w) =>
           /\ \A i \in DOMAIN w.calls : w.calls[i].op # "show"
           /\ w.visible => visible
           /\ ~w.showFloatingMenu

\* C20 witness: Escape was pressed in the open overlay, the caret in an
\* empty paragraph: the animation frame that returns the focus to the
\* document view, and the deferred update cycle of that focus, leave the
\* overlay hidden.
C20_Witness ==
  /\ preventHide /\ tippy = "live" /\ ~visible
  /\ ~hasFocus /\ frame = <<"focus">>
  /\ selection = Caret(Node("paragraph", "none"), 1)
  /\ shouldShowOpt # "never"
  /\ ~showFloatingMenu
  /\ \A w \in RunAnimationFrame :
       /\ w.hasFocus /\ w.focusTO = focusTO + 1
       /\ ~w.visible
       /\ ~update([w EXCEPT !.calls = <<>>]).visible

====
